---- MODULE Spec2Model ----
\* Model of the burst-segment curation functions of pymms/selections.py:
\* combine_segments, remove_duplicate_segments, selection_overlap,
\* sort_segments, filter_segments and the _get_selections pipeline.
\* A BurstSegment is a record [start, stop, fom, disc, file]: start/stop are
\* integer seconds (tstart/tstop, and their TAI epochs), disc is the discussion
\* string as a sequence of characters, file is the submission time stamp
\* embedded in the file name (0 when the segment has no file).
EXTENDS Integers, Sequences, FiniteSets, TLC

VARIABLES
    mIn, mG, mOut, mOut2, mPc,          \* combine_segments
    dIn, dOut, dPc,                     \* remove_duplicate_segments
    oRef, oTests, oOut, oPc,            \* selection_overlap
    pKind, pSortF, pCombineF, pUniqueReq, pUnique, pFilter,
    pPc, pRetrieved, pLog, pDelta, pData, pErr,  \* _get_selections
    sIn, sOut, sPc,                     \* sort_segments
    fIn, fPat, fOut, fPc,               \* filter_segments
    cHeader, cRows, cPc, cErr, cRead    \* read_csv

mvars == <<mIn, mG, mOut, mOut2, mPc>>
dvars == <<dIn, dOut, dPc>>
ovars == <<oRef, oTests, oOut, oPc>>
pvars == <<pKind, pSortF, pCombineF, pUniqueReq, pUnique, pFilter,
           pPc, pRetrieved, pLog, pDelta, pData, pErr>>
svars == <<sIn, sOut, sPc>>
fvars == <<fIn, fPat, fOut, fPc>>
cvars == <<cHeader, cRows, cPc, cErr, cRead>>
xvars == <<svars, fvars, cvars>>
vars == <<mvars, dvars, ovars, pvars, xvars>>

\* ------------------------------------------------------------------ bounds
MaxLen == 3
MaxDedupLen == 3
MaxTests == 2
MaxRaw == 2

\* ------------------------------------------------------- program constants
\* Sentinel appended to the gap list by combine_segments.
Sentinel == 1000
\* Initial dt_next of selection_overlap: 7000 days in seconds.
DtNextInit == 604800000

\* ------------------------------------------------------------- segments
Seg(s, e, f, c, fl) == [start |-> s, stop |-> e, fom |-> f, disc |-> c, file |-> fl]

\* ----------------------------------------------------- combine_segments
\* Gap list t_deltas: (seg1.tstart - seg0.tstop) for adjacent pairs, then the
\* sentinel 1000.
TDeltas(d) == [k \in 1..(Len(d) - 1) |-> d[k+1].start - d[k].stop] \o <<Sentinel>>

GapWithin(td, G) == td <= G

\* Equality test of t_delta against delta_t.
GapMatches(td, G) == td = G

\* One run of the loop `for idx, t_delta in enumerate(t_deltas)`, with Python's
\* 0-based idx and icontig (element idx of the list is d[idx+1]).  An
\* IndexError outside the try block is an uncaught error.
RECURSIVE CombineLoop(_, _, _, _, _)
CombineLoop(d, td, idx, ic, G) ==
    IF idx >= Len(td) THEN [err |-> "none", data |-> d, ic |-> ic]
    ELSE
      LET flush ==
            \* data[icontig].tstop = data[idx].tstop
            IF ic >= Len(d) \/ idx >= Len(d)
            THEN [err |-> "IndexError", data |-> d, ic |-> ic]
            ELSE LET d1 == [d EXCEPT ![ic+1].stop = d[idx+1].stop]
                     ic1 == ic + 1
                     \* try: data[icontig] = data[idx+1] except IndexError: pass
                     d2 == IF idx + 1 < Len(d1) THEN [d1 EXCEPT ![ic1+1] = d1[idx+2]]
                           ELSE d1
                 IN CombineLoop(d2, td, idx + 1, ic1, G)
      IN IF GapMatches(td[idx+1], G)
         THEN IF ic >= Len(d) \/ idx + 1 >= Len(d)
              THEN [err |-> "IndexError", data |-> d, ic |-> ic]
              ELSE IF d[ic+1].fom = d[idx+2].fom /\ d[ic+1].disc = d[idx+2].disc
                   THEN CombineLoop(d, td, idx + 1, ic, G)
                   ELSE flush
         ELSE flush

CombineSegmentsDropLast(d, G) ==
    LET r == CombineLoop(d, TDeltas(d), 0, 0, G)
    IN IF r.err # "none" THEN [err |-> r.err, data |-> d]
       ELSE [err |-> "none", data |-> SubSeq(r.data, 1, r.ic - 1)]

\* combine_segments(data, delta_t): the list after the call (del data[icontig:]).
CombineSegments(d, G) ==
    LET r == CombineLoop(d, TDeltas(d), 0, 0, G)
    IN IF r.err # "none" THEN [err |-> r.err, data |-> d]
       ELSE [err |-> "none", data |-> SubSeq(r.data, 1, r.ic)]

\* ------------------------------------------------- merge specification
Foms == {5, 6}
Discs == {<<"x">>, <<"y">>}
MDurs == {1, 2}
MGaps == {0, 10}
\* expected_gap values the program passes (0 and 10.0, lines 164/167).
DeltaTs == {0, 10}

\* Start-sorted lists of n segments.
RECURSIVE MChains(_)
MChains(n) ==
    IF n = 0 THEN {<<>>}
    ELSE IF n = 1 THEN {<<Seg(0, du, f, c, 0)>> : du \in MDurs, f \in Foms, c \in Discs}
    ELSE {Append(ch, Seg(ch[n-1].stop + g, ch[n-1].stop + g + du, f, c, 0)) :
            ch \in MChains(n - 1), g \in MGaps, du \in MDurs, f \in Foms, c \in Discs}

MInputs == UNION {MChains(n) : n \in 0..MaxLen}

NoRes == [err |-> "none", data |-> <<>>]

MergeInit ==
    /\ mIn \in MInputs
    /\ mG \in DeltaTs
    /\ mOut = NoRes
    /\ mOut2 = NoRes
    /\ mPc = "init"

\* First call of combine_segments.
Combine ==
    /\ mPc = "init"
    /\ mOut' = CombineSegments(mIn, mG)
    /\ mPc' = "once"
    /\ UNCHANGED <<mIn, mG, mOut2>>
    /\ UNCHANGED <<dvars, ovars, pvars, xvars>>

\* Second call of combine_segments on the list left by the first.
CombineAgain ==
    /\ mPc = "once"
    /\ mOut.err = "none"
    /\ mOut2' = CombineSegments(mOut.data, mG)
    /\ mPc' = "twice"
    /\ UNCHANGED <<mIn, mG, mOut>>
    /\ UNCHANGED <<dvars, ovars, pvars, xvars>>

\* --------------------------------------------- remove_duplicate_segments
\* file_start_time(): the submission time stamp of the segment's file name;
\* a segment without a file has none (AttributeError on file.stem).
FileStartTime(seg) == seg.file

\* The inner `while (data[i].taistarttime - t0_ref) < dt_ref` loop inside the
\* try block, started at i = idx + 1 (Python indices).  Reading data[i] past
\* the end raises IndexError; the candidate replaces ref_seg when its file
\* time is later than that of data[idx].
RECURSIVE OverlapRun(_, _, _, _, _, _)
OverlapRun(d, idx, i, t0, dtRef, ref) ==
    IF i >= Len(d) THEN [err |-> "IndexError", i |-> i, ref |-> ref]
    ELSE IF d[i+1].start - t0 < dtRef
         THEN IF d[i+1].file = 0 \/ ref.file = 0
              THEN [err |-> "AttributeError", i |-> i, ref |-> ref]
              ELSE OverlapRun(d, idx, i + 1, t0, dtRef,
                     IF FileStartTime(d[i+1]) > FileStartTime(d[idx+1]) THEN d[i+1] ELSE ref)
         ELSE [err |-> "none", i |-> i, ref |-> ref]

CatchNone(r) == r

\* `except IndexError: pass` around the inner loop.
CatchRunEnd(r) == IF r.err = "IndexError" THEN [r EXCEPT !.err = "none"] ELSE r

\* The outer `for idx in range(len(data))` loop; i is the first index not
\* yet consumed.
RECURSIVE DedupLoop(_, _, _, _)
DedupLoop(d, idx, i, result) ==
    IF idx >= Len(d) THEN [err |-> "none", result |-> result]
    ELSE IF idx < i THEN DedupLoop(d, idx + 1, i, result)
    ELSE LET ref == d[idx+1]
             r == CatchRunEnd(OverlapRun(d, idx, idx + 1, ref.start,
                                         ref.stop - ref.start, ref))
         IN IF r.err # "none" THEN [err |-> r.err, result |-> result]
            ELSE DedupLoop(d, idx + 1, r.i, Append(result, r.ref))

RemoveDuplicateSegments(d) == DedupLoop(d, 0, 0, <<>>)

\* ------------------------------------------------- dedup specification
DStartGaps == {0, 1, 2}
DDurs == {1, 3}
FileTimes == {1, 2, 3}

\* Start-sorted lists of n segments, each from a file.
RECURSIVE DChains(_)
DChains(n) ==
    IF n = 0 THEN {<<>>}
    ELSE IF n = 1 THEN {<<Seg(0, du, 5, <<"x">>, ft)>> : du \in DDurs, ft \in FileTimes}
    ELSE {Append(ch, Seg(ch[n-1].start + g, ch[n-1].start + g + du, 5, <<"x">>, ft)) :
            ch \in DChains(n - 1), g \in DStartGaps, du \in DDurs, ft \in FileTimes}

DInputs == UNION {DChains(n) : n \in 0..MaxDedupLen}

DedupInit ==
    /\ dIn \in DInputs
    /\ dOut = [err |-> "none", result |-> <<>>]
    /\ dPc = "init"

\* One call of remove_duplicate_segments.
Dedup ==
    /\ dPc = "init"
    /\ dOut' = RemoveDuplicateSegments(dIn)
    /\ dPc' = "done"
    /\ UNCHANGED dIn
    /\ UNCHANGED <<mvars, ovars, pvars, xvars>>

\* ----------------------------------------------------- selection_overlap
\* A ratio of timedeltas is kept exact as a fraction [num, den].
Frac(n, d) == [num |-> n, den |-> d]

Min(a, b) == IF a <= b THEN a ELSE b
MaxFirst(a, b) == a

Max(a, b) == IF a >= b THEN a ELSE b

Abs(x) == IF x < 0 THEN -x ELSE x

OverlapsStrict(test, ref) == test.start < ref.stop /\ test.stop > ref.start

\* The selection's overlap test.
Overlaps(test, ref) == test.start <= ref.stop /\ test.stop >= ref.start

\* The `for test in tests` loop.
RECURSIVE OverlapLoop(_, _, _, _)
OverlapLoop(ref, tests, k, out) ==
    IF k > Len(tests) THEN out
    ELSE LET test == tests[k]
             o1 == IF Overlaps(test, ref)
                   THEN [out EXCEPT !.n_selections = @ + 1,
                                    !.t_overlap = @ + (Min(test.stop, ref.stop)
                                                       - Max(test.start, ref.start))]
                   ELSE out
         IN OverlapLoop(ref, tests, k + 1,
                        [o1 EXCEPT !.dt_next = Min(@, Abs(test.start - ref.start))])

\* selection_overlap(ref, tests); dividing by a zero dt raises ZeroDivisionError.
SelectionOverlap(ref, tests) ==
    LET o == OverlapLoop(ref, tests, 1,
               [dt |-> ref.stop - ref.start, dt_next |-> DtNextInit,
                n_selections |-> 0, t_overlap |-> 0, t_overselect |-> 0,
                pct_overlap |-> Frac(0, 1), pct_overselect |-> Frac(0, 1),
                err |-> "none"])
    IN IF o.n_selections > 0
       THEN IF o.dt = 0 THEN [o EXCEPT !.err = "ZeroDivisionError"]
            ELSE [o EXCEPT !.t_overselect = o.dt - o.t_overlap,
                           !.pct_overlap = Frac(o.t_overlap * 100, o.dt),
                           !.pct_overselect = Frac((o.dt - o.t_overlap) * 100, o.dt)]
       ELSE [o EXCEPT !.t_overselect = o.dt, !.pct_overselect = Frac(100, 1)]

\* ----------------------------------------------- overlap specification
OTimes == 0..4

OSegs == {sg \in {Seg(s, e, 5, <<"x">>, 1) : s \in OTimes, e \in OTimes} :
            sg.start <= sg.stop}

ORefs == {sg \in OSegs : sg.start \in 1..2 /\ sg.stop <= sg.start + 2}

OTestLists == UNION {[1..n -> OSegs] : n \in 0..MaxTests}

OverlapInit ==
    /\ oRef \in ORefs
    /\ oTests \in OTestLists
    /\ oOut = "none"
    /\ oPc = "init"

\* One call of selection_overlap.
Overlap ==
    /\ oPc = "init"
    /\ oOut' = SelectionOverlap(oRef, oTests)
    /\ oPc' = "done"
    /\ UNCHANGED <<oRef, oTests>>
    /\ UNCHANGED <<mvars, dvars, pvars, xvars>>

\* ------------------------------------------------ sort and filter stages
RECURSIVE InsertByStartBefore(_, _)
InsertByStartBefore(s, x) ==
    IF s = <<>> THEN <<x>>
    ELSE IF x.start <= s[Len(s)].start
         THEN Append(InsertByStartBefore(SubSeq(s, 1, Len(s) - 1), x), s[Len(s)])
         ELSE Append(s, x)

\* sorted(data, key=lambda x: x.tstart): a stable sort, here by insertion.
RECURSIVE InsertByStart(_, _)
InsertByStart(s, x) ==
    IF s = <<>> THEN <<x>>
    ELSE IF x.start < s[Len(s)].start
         THEN Append(InsertByStart(SubSeq(s, 1, Len(s) - 1), x), s[Len(s)])
         ELSE Append(s, x)

RECURSIVE SortFrom(_, _)
SortFrom(d, acc) == IF d = <<>> THEN acc ELSE SortFrom(Tail(d), InsertByStart(acc, Head(d)))

SortSegments(d) == SortFrom(d, <<>>)

\* ------------------------------------------------ sort specification
MaxSortLen == 3
SortSegs == {Seg(st, st + 1, 5, c, 0) : st \in {0, 1}, c \in Discs}
SInputs == UNION {[1..n -> SortSegs] : n \in 0..MaxSortLen}

SortInit == sIn \in SInputs /\ sOut = <<>> /\ sPc = "init"

\* One call of sort_segments.
SortCall ==
    /\ sPc = "init"
    /\ sOut' = SortSegments(sIn)
    /\ sPc' = "done"
    /\ UNCHANGED sIn
    /\ UNCHANGED <<mvars, dvars, ovars, pvars, fvars, cvars>>

SearchFull(pat, text) == text \in pat

\* re.search(re_filter, discussion) for a pattern given as its set of literal
\* alternatives: some alternative occurs somewhere in the text.
Search(pat, text) ==
    \E alt \in pat : \E k \in 1..(Len(text) - Len(alt) + 1) :
        SubSeq(text, k, k + Len(alt) - 1) = alt

FilterSegments(d, pat) == SelectSeq(d, LAMBDA sg : Search(pat, sg.disc))

\* ------------------------------------------------------ _get_selections
AllKinds == {"abs", "abs-all", "sitl", "sitl+back", "gls", "mp-dl-unh"}
ZeroGapKinds == {"abs-all", "sitl", "gls", "mp-dl-unh"}
TenGapKinds == {"abs", "sitl+back"}

IsValidKindAny(k) == TRUE

\* The first test of _get_selections (lines 151-154).
IsValidKind(k) == k \in AllKinds

\* delta_t chosen by selection kind.
GapFor(k) == IF k \in ZeroGapKinds THEN 0 ELSE 10

UniqueKept(k, u) == u

\* `unique = False` for the abs and sitl+back kinds.
UniqueFor(k, u) == IF k \in TenGapKinds THEN FALSE ELSE u

\* _burst_data_segments_to_burst_segment builds segments without a file;
\* _sitl_selections_to_burst_segment keeps the record's file.
Convert(k, raw) ==
    IF k \in TenGapKinds THEN [j \in 1..Len(raw) |-> [raw[j] EXCEPT !.file = 0]]
    ELSE raw

\* ---------------------------------------------- pipeline specification
PKinds == AllKinds \cup {"events"}
\* re_filter: None, or a pattern.
Patterns == {[given |-> FALSE, pat |-> {}], [given |-> TRUE, pat |-> {<<"x">>}]}
RawSegs == {Seg(s, s + 1, 5, c, ft) : s \in {0, 1}, c \in Discs, ft \in {1, 2}}
RawLists == UNION {[1..n -> RawSegs] : n \in 0..MaxRaw}

PipeInit ==
    /\ pKind \in PKinds
    /\ pSortF \in BOOLEAN /\ pCombineF \in BOOLEAN /\ pUniqueReq \in BOOLEAN
    /\ pUnique = pUniqueReq
    /\ pFilter \in Patterns
    /\ pPc = "start" /\ pRetrieved = FALSE /\ pLog = <<>>
    /\ pDelta = 0 /\ pData = <<>> /\ pErr = "none"

pstatic == <<pKind, pSortF, pCombineF, pUniqueReq, pFilter>>

\* Check of the selection kind.
PCheck ==
    /\ pPc = "start"
    /\ IF IsValidKind(pKind)
       THEN pPc' = "retrieve" /\ UNCHANGED pErr
       ELSE pPc' = "error" /\ pErr' = "ValueError"
    /\ UNCHANGED <<pstatic, pUnique, pRetrieved, pLog, pDelta, pData>>
    /\ UNCHANGED <<mvars, dvars, ovars, xvars>>

\* data = sdc.mission_data(type, start, stop): any raw record list.
PRetrieve ==
    /\ pPc = "retrieve"
    /\ \E raw \in RawLists : pData' = raw
    /\ pRetrieved' = TRUE
    /\ pPc' = "convert"
    /\ UNCHANGED <<pstatic, pUnique, pLog, pDelta, pErr>>
    /\ UNCHANGED <<mvars, dvars, ovars, xvars>>

\* Choice of delta_t, unique and converter, then the conversion; a kind in
\* neither list raises ValueError.
PConvert ==
    /\ pPc = "convert"
    /\ IF pKind \in ZeroGapKinds \cup TenGapKinds
       THEN /\ pDelta' = GapFor(pKind)
            /\ pUnique' = UniqueFor(pKind, pUnique)
            /\ pData' = Convert(pKind, pData)
            /\ pPc' = "sort"
            /\ UNCHANGED pErr
       ELSE /\ pPc' = "error" /\ pErr' = "ValueError"
            /\ UNCHANGED <<pDelta, pUnique, pData>>
    /\ UNCHANGED <<pstatic, pRetrieved, pLog>>
    /\ UNCHANGED <<mvars, dvars, ovars, xvars>>

PSort ==
    /\ pPc = "sort"
    /\ IF pSortF
       THEN pData' = SortSegments(pData) /\ pLog' = Append(pLog, [stage |-> "sort", gap |-> 0])
       ELSE UNCHANGED <<pData, pLog>>
    /\ pPc' = "combine"
    /\ UNCHANGED <<pstatic, pUnique, pRetrieved, pDelta, pErr>>
    /\ UNCHANGED <<mvars, dvars, ovars, xvars>>

PCombine ==
    /\ pPc = "combine"
    /\ IF pCombineF
       THEN LET r == CombineSegments(pData, pDelta)
            IN IF r.err = "none"
               THEN /\ pData' = r.data
                    /\ pLog' = Append(pLog, [stage |-> "combine", gap |-> pDelta])
                    /\ pPc' = "unique" /\ UNCHANGED pErr
               ELSE /\ pPc' = "error" /\ pErr' = r.err
                    /\ UNCHANGED <<pData, pLog>>
       ELSE pPc' = "unique" /\ UNCHANGED <<pData, pLog, pErr>>
    /\ UNCHANGED <<pstatic, pUnique, pRetrieved, pDelta>>
    /\ UNCHANGED <<mvars, dvars, ovars, xvars>>

PUnique ==
    /\ pPc = "unique"
    /\ IF pUnique
       THEN LET r == RemoveDuplicateSegments(pData)
            IN IF r.err = "none"
               THEN /\ pData' = r.result
                    /\ pLog' = Append(pLog, [stage |-> "unique", gap |-> 0])
                    /\ pPc' = "filter" /\ UNCHANGED pErr
               ELSE /\ pPc' = "error" /\ pErr' = r.err
                    /\ UNCHANGED <<pData, pLog>>
       ELSE pPc' = "filter" /\ UNCHANGED <<pData, pLog, pErr>>
    /\ UNCHANGED <<pstatic, pUnique, pRetrieved, pDelta>>
    /\ UNCHANGED <<mvars, dvars, ovars, xvars>>

PFilter ==
    /\ pPc = "filter"
    /\ IF pFilter.given
       THEN pData' = FilterSegments(pData, pFilter.pat)
            /\ pLog' = Append(pLog, [stage |-> "filter", gap |-> 0])
       ELSE UNCHANGED <<pData, pLog>>
    /\ pPc' = "done"
    /\ UNCHANGED <<pstatic, pUnique, pRetrieved, pDelta, pErr>>
    /\ UNCHANGED <<mvars, dvars, ovars, xvars>>

\* Components at rest (the other specifications leave them so).
MergeIdle == mIn = <<>> /\ mG = 0 /\ mOut = NoRes /\ mOut2 = NoRes /\ mPc = "idle"
DedupIdle == dIn = <<>> /\ dOut = [err |-> "none", result |-> <<>>] /\ dPc = "idle"
OverlapIdle == oRef = Seg(0, 1, 0, <<>>, 0) /\ oTests = <<>> /\ oOut = "none" /\ oPc = "idle"
PipeIdle ==
    /\ pKind = "none" /\ pSortF = FALSE /\ pCombineF = FALSE /\ pUniqueReq = FALSE
    /\ pUnique = FALSE /\ pFilter = [given |-> FALSE, pat |-> {}] /\ pPc = "idle" /\ pRetrieved = FALSE
    /\ pLog = <<>> /\ pDelta = 0 /\ pData = <<>> /\ pErr = "none"

SortIdle == sIn = <<>> /\ sOut = <<>> /\ sPc = "idle"
FilterIdle == fIn = <<>> /\ fPat = {} /\ fOut = <<>> /\ fPc = "idle"
CsvIdle == cHeader = {} /\ cRows = 0 /\ cPc = "idle" /\ cErr = "none" /\ cRead = 0
XIdle == SortIdle /\ FilterIdle /\ CsvIdle

MergeNext == Combine \/ CombineAgain
MergeSpecInit == MergeInit /\ DedupIdle /\ OverlapIdle /\ PipeIdle /\ XIdle
MergeSpec == MergeSpecInit /\ [][MergeNext]_vars

OverlapNext == Overlap
OverlapSpecInit == MergeIdle /\ DedupIdle /\ OverlapInit /\ PipeIdle /\ XIdle
OverlapSpec == OverlapSpecInit /\ [][OverlapNext]_vars

PipeNext ==
    PCheck \/ PRetrieve \/ PConvert \/ PSort \/ PCombine \/ PUnique \/ PFilter
PipeSpecInit == MergeIdle /\ DedupIdle /\ OverlapIdle /\ PipeInit /\ XIdle
PipeSpec == PipeSpecInit /\ [][PipeNext]_vars

DedupNext == Dedup
DedupSpecInit == MergeIdle /\ DedupInit /\ OverlapIdle /\ PipeIdle /\ XIdle
DedupSpec == DedupSpecInit /\ [][DedupNext]_vars

\* ---------------------------------------------- filter specification
MaxFiltLen == 2
\* Discussion texts: the spec's two examples and two short ones.
TxtMagnetopause == <<"M", "a", "g", "n", "e", "t", "o", "p", "a", "u", "s", "e", " ", "c", "r", "o", "s", "s", "i", "n", "g">>
TxtPlasma == <<"P", "l", "a", "s", "m", "a", " ", "s", "h", "e", "e", "t">>
FDiscs == {TxtMagnetopause, TxtPlasma, <<"M", "P">>, <<"P", "M">>}
\* Patterns as their literal alternatives: "(MP|Magnetopause)", "sheet", "M".
PatMP == {<<"M", "P">>, <<"M", "a", "g", "n", "e", "t", "o", "p", "a", "u", "s", "e">>}
FPatterns == {PatMP, {<<"s", "h", "e", "e", "t">>}, {<<"M">>}}
FInputs == UNION {[1..n -> {Seg(0, 1, 5, c, 0) : c \in FDiscs}] : n \in 0..MaxFiltLen}

FilterInit == fIn \in FInputs /\ fPat \in FPatterns /\ fOut = <<>> /\ fPc = "init"

\* One call of filter_segments.
FilterCall ==
    /\ fPc = "init"
    /\ fOut' = FilterSegments(fIn, fPat)
    /\ fPc' = "done"
    /\ UNCHANGED <<fIn, fPat>>
    /\ UNCHANGED <<mvars, dvars, ovars, pvars, svars, cvars>>

FilterNext == FilterCall
FilterSpecInit == MergeIdle /\ DedupIdle /\ OverlapIdle /\ PipeIdle /\ SortIdle /\ FilterInit /\ CsvIdle
FilterSpec == FilterSpecInit /\ [][FilterNext]_vars

\* ------------------------------------------------------------ read_csv
MaxRows == 2
RequiredKeys == {"start_time", "stop_time", "fom", "discussion"}
Columns == RequiredKeys \cup {"sourceid"}

\* A file with header=True: a header row naming some columns, then rows.
CsvInit ==
    /\ cHeader \in SUBSET Columns
    /\ cRows \in 0..MaxRows
    /\ cPc = "open" /\ cErr = "none" /\ cRead = 0

\* header = next(csvreader); the ValueError of an incomplete header is
\* built but not raised.
CsvHeader ==
    /\ cPc = "open"
    /\ cPc' = "rows"
    /\ UNCHANGED <<cHeader, cRows, cErr, cRead>>
    /\ UNCHANGED <<mvars, dvars, ovars, pvars, svars, fvars>>

\* One row: data_dict.pop of start_time, stop_time, fom and discussion raises
\* KeyError for a column the header lacks; otherwise a segment is appended.
CsvRow ==
    /\ cPc = "rows" /\ cRows > 0
    /\ IF RequiredKeys \subseteq cHeader
       THEN /\ cRead' = cRead + 1 /\ cRows' = cRows - 1
            /\ UNCHANGED <<cPc, cErr>>
       ELSE /\ cPc' = "error" /\ cErr' = "KeyError"
            /\ UNCHANGED <<cRead, cRows>>
    /\ UNCHANGED cHeader
    /\ UNCHANGED <<mvars, dvars, ovars, pvars, svars, fvars>>

\* End of the rows: return data.
CsvEnd ==
    /\ cPc = "rows" /\ cRows = 0
    /\ cPc' = "done"
    /\ UNCHANGED <<cHeader, cRows, cErr, cRead>>
    /\ UNCHANGED <<mvars, dvars, ovars, pvars, svars, fvars>>

CsvNext == CsvHeader \/ CsvRow \/ CsvEnd
CsvSpecInit == MergeIdle /\ DedupIdle /\ OverlapIdle /\ PipeIdle /\ SortIdle /\ FilterIdle /\ CsvInit
CsvSpec == CsvSpecInit /\ [][CsvNext]_vars

SortNext == SortCall
SortSpecInit == MergeIdle /\ DedupIdle /\ OverlapIdle /\ PipeIdle /\ SortInit /\ FilterIdle /\ CsvIdle
SortSpec == SortSpecInit /\ [][SortNext]_vars

\* All the functions side by side.
Init == MergeSpecInit \/ DedupSpecInit \/ OverlapSpecInit \/ PipeSpecInit \/ SortSpecInit
        \/ FilterSpecInit \/ CsvSpecInit
Next == MergeNext \/ DedupNext \/ OverlapNext \/ PipeNext \/ SortNext \/ FilterNext \/ CsvNext
Spec == Init /\ [][Next]_vars

\* ------------------------------------------- merge: reference definitions
\* Two adjacent input segments are mergeable: exact gap, same fom and text.
Mergeable(a, b, G) == b.start - a.stop = G /\ a.fom = b.fom /\ a.disc = b.disc

\* Maximal runs of mergeable adjacent segments, one record per run with the
\* run's first segment, last stop, member count and summed durations.
RECURSIVE RunsFrom(_, _, _, _)
RunsFrom(d, G, k, out) ==
    IF k > Len(d) THEN out
    ELSE IF Mergeable(d[k-1], d[k], G)
         THEN RunsFrom(d, G, k + 1,
                [out EXCEPT ![Len(out)].stop = d[k].stop,
                            ![Len(out)].n = @ + 1,
                            ![Len(out)].sum = @ + (d[k].stop - d[k].start)])
         ELSE RunsFrom(d, G, k + 1,
                Append(out, [first |-> d[k], stop |-> d[k].stop, n |-> 1,
                             sum |-> d[k].stop - d[k].start]))

Runs(d, G) ==
    IF d = <<>> THEN <<>>
    ELSE RunsFrom(d, G, 2, <<[first |-> d[1], stop |-> d[1].stop, n |-> 1,
                              sum |-> d[1].stop - d[1].start]>>)

ExpectedMerge(d, G) == [j \in 1..Len(Runs(d, G)) |-> [Runs(d, G)[j].first EXCEPT !.stop = Runs(d, G)[j].stop]]

\* C1: on a non-empty start-sorted list, combine_segments leaves exactly one
\* segment per maximal run of adjacent segments with gap exactly G, equal fom
\* and equal discussion, spanning the run's first start to its last stop.
C1_MergeRuns ==
    mPc \in {"once", "twice"} /\ Len(mIn) > 0 =>
        /\ mOut.err = "none"
        /\ mOut.data = ExpectedMerge(mIn, mG)

C1_Witness ==
    /\ mPc = "once" /\ Len(mIn) = 3 /\ mOut.err = "none"
    /\ Len(mOut.data) = 2 /\ mIn[1].fom # mIn[3].fom

\* C2: combine_segments on an empty list completes and leaves it empty; on a
\* single-element list it leaves the element unchanged.
C2_EdgeCases ==
    mPc = "once" /\ Len(mIn) <= 1 => mOut = [err |-> "none", data |-> mIn]

\* C7: a second combine_segments with the same gap leaves a merged list unchanged.
C7_Idempotent ==
    mPc = "twice" => mOut2 = [err |-> "none", data |-> mOut.data]

C7_Witness ==
    mPc = "twice" /\ Len(mOut.data) >= 2 /\ Len(mOut.data) < Len(mIn)

\* C8 (as stated): a collapsed run's duration equals the summed durations of
\* its members.
C8_DurationIsSum ==
    mPc = "once" /\ mOut.err = "none" =>
        /\ Len(mOut.data) = Len(Runs(mIn, mG))
        /\ \A j \in 1..Len(mOut.data) :
              mOut.data[j].stop - mOut.data[j].start = Runs(mIn, mG)[j].sum

\* C8 (amended): a collapsed run of n members separated by gaps of exactly G
\* lasts the summed durations plus (n - 1) * G; for G = 0 they are equal.
C8_DurationWithGaps ==
    mPc = "once" /\ mOut.err = "none" =>
        /\ Len(mOut.data) = Len(Runs(mIn, mG))
        /\ \A j \in 1..Len(mOut.data) :
              mOut.data[j].stop - mOut.data[j].start
                = Runs(mIn, mG)[j].sum + (Runs(mIn, mG)[j].n - 1) * mG

C8_Witness ==
    mPc = "once" /\ mOut.err = "none" /\ mG = 10 /\ Len(mOut.data) < Len(mIn)

\* ------------------------------------------- dedup: reference definitions
\* Last index of the overlap run started at s: the following segments whose
\* start lies less than the duration of d[s] after d[s].start.
RECURSIVE RunEnd(_, _, _)
RunEnd(d, s, k) ==
    IF k <= Len(d) /\ d[k].start - d[s].start < d[s].stop - d[s].start
    THEN RunEnd(d, s, k + 1) ELSE k - 1

RECURSIVE ClustersFrom(_, _)
ClustersFrom(d, s) ==
    IF s > Len(d) THEN <<>>
    ELSE <<[s |-> s, e |-> RunEnd(d, s, s + 1)]>> \o ClustersFrom(d, RunEnd(d, s, s + 1) + 1)

Clusters(d) == ClustersFrom(d, 1)

MaxFileTime(d, c) == CHOOSE t \in {d[k].file : k \in c.s..c.e} :
                        \A k \in c.s..c.e : d[k].file <= t

\* Scan of a cluster keeping the current reference unless a later member was
\* submitted strictly later than it.
RECURSIVE ScanLatest(_, _, _, _)
ScanLatest(d, k, e, ref) ==
    IF k > e THEN ref
    ELSE ScanLatest(d, k + 1, e, IF d[k].file > ref.file THEN d[k] ELSE ref)

\* C3: each overlap cluster's surviving segment has the latest submission
\* time stamp among the cluster's members.
C3_KeepsLatest ==
    dPc = "done" =>
        /\ dOut.err = "none"
        /\ Len(dOut.result) = Len(Clusters(dIn))
        /\ \A j \in 1..Len(dOut.result) :
              dOut.result[j].file = MaxFileTime(dIn, Clusters(dIn)[j])

\* C4: one segment per run, in order; a run starts at the first unconsumed
\* segment, keeps the original window (start and duration D), and its kept
\* segment is replaced by a member submitted later than the current one.
C4_RunStructure ==
    dPc = "done" =>
        /\ dOut.err = "none"
        /\ dOut.result = [j \in 1..Len(Clusters(dIn)) |->
                            ScanLatest(dIn, Clusters(dIn)[j].s + 1, Clusters(dIn)[j].e,
                                       dIn[Clusters(dIn)[j].s])]

\* C5: remove_duplicate_segments returns an empty list for an empty input and,
\* when an overlap run reaches the end of the list, ends without an uncaught
\* error and still emits that run's kept segment.
C5_EndOfList ==
    dPc = "done" =>
        /\ dOut.err = "none"
        /\ (Len(dIn) = 0 => dOut.result = <<>>)
        /\ Len(dOut.result) = Len(Clusters(dIn))
        /\ Len(dIn) > 0 =>
              \E k \in Clusters(dIn)[Len(Clusters(dIn))].s..Len(dIn) :
                  dOut.result[Len(dOut.result)] = dIn[k]

C5_Witness ==
    /\ dPc = "done" /\ Len(dIn) = 3
    /\ Len(Clusters(dIn)) = 1
    /\ dOut.result[1] # dIn[1]

\* ----------------------------------------- overlap: reference definitions
RECURSIVE SumSeq(_)
SumSeq(s) == IF s = <<>> THEN 0 ELSE Head(s) + SumSeq(Tail(s))

SameFrac(f, n, d) == f.num * d = n * f.den

\* C6: selection_overlap counts the candidates with start <= ref.stop and
\* stop >= ref.start, sums their clipped overlap, takes the nearest start
\* distance over all candidates, and derives over-selection and percentages
\* from dt (or 100 % over-selection with no overlapping candidate); a single
\* candidate containing ref gives 100 % overlap and 0 % over-selection.
C6_OverlapStats ==
    oPc = "done" /\ oRef.start < oRef.stop =>
        LET o == oOut
            ov == {k \in 1..Len(oTests) :
                     oTests[k].start <= oRef.stop /\ oTests[k].stop >= oRef.start}
            tov == SumSeq([k \in 1..Len(oTests) |->
                     IF k \in ov
                     THEN Min(oTests[k].stop, oRef.stop) - Max(oTests[k].start, oRef.start)
                     ELSE 0])
            dt == oRef.stop - oRef.start
        IN /\ o.err = "none"
           /\ o.dt = dt
           /\ o.n_selections = Cardinality(ov)
           /\ o.t_overlap = tov
           /\ Len(oTests) > 0 =>
                 \A k \in 1..Len(oTests) :
                    /\ o.dt_next <= Abs(oTests[k].start - oRef.start)
                    /\ \E m \in 1..Len(oTests) : o.dt_next = Abs(oTests[m].start - oRef.start)
           /\ IF Cardinality(ov) > 0
              THEN /\ o.t_overselect = dt - tov
                   /\ SameFrac(o.pct_overlap, tov * 100, dt)
                   /\ SameFrac(o.pct_overselect, (dt - tov) * 100, dt)
              ELSE /\ o.t_overselect = dt
                   /\ SameFrac(o.pct_overlap, 0, 1)
                   /\ SameFrac(o.pct_overselect, 100, 1)
           /\ (Len(oTests) = 1 /\ oTests[1].start <= oRef.start /\ oTests[1].stop >= oRef.stop)
                 => SameFrac(o.pct_overlap, 100, 1) /\ SameFrac(o.pct_overselect, 0, 1)

C6_Witness ==
    /\ oPc = "done" /\ oRef.start < oRef.stop /\ Len(oTests) = 2
    /\ oOut.n_selections = 1
    /\ oOut.t_overlap > 0 /\ oOut.t_overlap < oOut.dt

\* ---------------------------------------- pipeline: reference definitions
StageRank(st) ==
    CASE st = "sort" -> 1 [] st = "combine" -> 2 [] st = "unique" -> 3 [] st = "filter" -> 4

Stages(log) == {log[j].stage : j \in 1..Len(log)}

\* C9: a kind outside the six known kinds fails with ValueError before any
\* call of sdc.mission_data.
C9_InvalidKind ==
    pKind \notin AllKinds /\ pPc # "start" =>
        pPc = "error" /\ pErr = "ValueError" /\ ~pRetrieved

C9_Witness == pPc = "error" /\ pKind = "events"

\* C10: the enabled stages run in the order sort, combine, deduplicate,
\* filter; the zero-gap kinds combine with gap 0 and deduplicate when unique
\* is requested; abs and sitl+back combine with gap 10 and never deduplicate.
C10_PipelineOrder ==
    /\ \A a, b \in 1..Len(pLog) : a < b => StageRank(pLog[a].stage) < StageRank(pLog[b].stage)
    /\ \A j \in 1..Len(pLog) : pLog[j].stage = "combine" =>
          /\ pKind \in ZeroGapKinds => pLog[j].gap = 0
          /\ pKind \in TenGapKinds => pLog[j].gap = 10
    /\ pKind \in TenGapKinds => "unique" \notin Stages(pLog)
    /\ pPc = "done" =>
          /\ pKind \in ZeroGapKinds /\ pUniqueReq => "unique" \in Stages(pLog)
          /\ pSortF <=> "sort" \in Stages(pLog)
          /\ pCombineF <=> "combine" \in Stages(pLog)
          /\ pFilter.given <=> "filter" \in Stages(pLog)

C10_Witness ==
    /\ pPc = "done" /\ pKind \in TenGapKinds /\ pUniqueReq
    /\ pSortF /\ pCombineF /\ pFilter.given /\ Len(pLog) = 3

\* ------------------------------------------------ sort: reference definitions
Perms(n) == {p \in [1..n -> 1..n] : \A a, b \in 1..n : a # b => p[a] # p[b]}

\* C11: sort_segments returns a permutation of its input ordered by start,
\* keeping the input order of segments with equal starts, and leaves the
\* input list as it was.
C11_SortStable ==
    sPc = "done" =>
        /\ Len(sOut) = Len(sIn)
        /\ \E p \in Perms(Len(sIn)) :
              /\ \A k \in 1..Len(sIn) : sOut[k] = sIn[p[k]]
              /\ \A k \in 1..(Len(sIn) - 1) :
                    /\ sOut[k].start <= sOut[k+1].start
                    /\ sOut[k].start = sOut[k+1].start => p[k] < p[k+1]

C11_Witness ==
    /\ sPc = "done" /\ Len(sIn) = 3
    /\ sIn[1].start > sIn[3].start
    /\ sIn[2].start = sIn[3].start /\ sIn[2].disc # sIn[3].disc

\* ---------------------------------------------- filter: reference definitions
Substrings(t) == {SubSeq(t, i, j) : i \in 1..Len(t), j \in 0..Len(t)}
Hits(t, pat) == pat \cap Substrings(t) # {}

\* C12: filter_segments keeps exactly the segments whose discussion contains
\* a match of the pattern somewhere, in input order, unchanged; "Magnetopause
\* crossing" matches "(MP|Magnetopause)" and "Plasma sheet" does not.
C12_FilterSearch ==
    fPc = "done" =>
        /\ \E f \in [1..Len(fOut) -> 1..Len(fIn)] :
              /\ \A k \in 1..Len(fOut) : fOut[k] = fIn[f[k]]
              /\ \A a, b \in 1..Len(fOut) : a < b => f[a] < f[b]
              /\ {f[k] : k \in 1..Len(fOut)} = {i \in 1..Len(fIn) : Hits(fIn[i].disc, fPat)}
        /\ (fPat = PatMP => \A i \in 1..Len(fIn) :
              /\ fIn[i].disc = TxtMagnetopause => fIn[i] \in {fOut[k] : k \in 1..Len(fOut)}
              /\ fIn[i].disc = TxtPlasma => fIn[i] \notin {fOut[k] : k \in 1..Len(fOut)})

C12_Witness ==
    /\ fPc = "done" /\ fPat = PatMP /\ Len(fIn) = 2
    /\ fIn[1].disc = TxtPlasma /\ fIn[2].disc = TxtMagnetopause /\ Len(fOut) = 1

\* ------------------------------------------------ read_csv: reference definitions
\* C13: read_csv with a header lacking one of start_time, stop_time, fom,
\* discussion raises a schema error (ValueError) before reading any row.
C13_HeaderSchemaError ==
    ~(RequiredKeys \subseteq cHeader) /\ cPc \notin {"idle", "open"} =>
        cPc = "error" /\ cErr = "ValueError" /\ cRead = 0

\* C14: every segment has start < stop, so selection_overlap never divides
\* by a zero duration.
C14_PositiveDuration ==
    oPc = "done" => oRef.start < oRef.stop /\ oOut.err = "none"

PctWithin(f) == 0 <= f.num /\ f.num <= 100 * f.den

\* C15 (as stated): for any reference and candidates, 0 <= pct_overlap <= 100
\* and t_overselect >= 0.
C15_PctBounded ==
    oPc = "done" /\ oOut.err = "none" =>
        PctWithin(oOut.pct_overlap) /\ oOut.t_overselect >= 0

\* Candidates that overlap one another at most at an end point.
PairwiseDisjoint(ts) ==
    \A a, b \in 1..Len(ts) : a # b => ts[a].stop <= ts[b].start \/ ts[b].stop <= ts[a].start

\* C15 (amended): for a reference with start < stop and candidates that
\* overlap one another at most at an end point, 0 <= pct_overlap <= 100 and
\* t_overselect >= 0.
C15_PctBoundedDisjoint ==
    oPc = "done" /\ oRef.start < oRef.stop /\ PairwiseDisjoint(oTests) =>
        /\ oOut.err = "none"
        /\ PctWithin(oOut.pct_overlap)
        /\ oOut.t_overselect >= 0

C15_Witness ==
    /\ oPc = "done" /\ oRef.start < oRef.stop /\ PairwiseDisjoint(oTests)
    /\ oOut.n_selections = 2 /\ oOut.t_overlap = oOut.dt

====
